---- MODULE Spec2Model ----
(***************************************************************************)
(* A model of core-graphics/src/path.rs: the CGPath handle (a foreign,     *)
(* reference-counted path object wrapped by foreign_type!) and the         *)
(* CGPath::apply iteration bridge (CGPathApply + the do_apply trampoline). *)
(*                                                                         *)
(* The foreign library (CoreFoundation / CoreGraphics) is modelled by its  *)
(* calling contract at the extern declarations the file links against.     *)
(***************************************************************************)
EXTENDS Integers, Sequences, FiniteSets, TLC

\* ------------------------------------------------------------------ bounds
MaxObjs == 2
MaxHandles == 3
MaxCalls == 2
MaxDepth == 2
MaxSaved == 1
MaxThreads == 2
MaxQueries == 2

Obj == 1..MaxObjs
Hid == 1..MaxHandles
\* Threads of the process; thread 0 is the main thread.
Threads == 0..(MaxThreads - 1)

\* --------------------------------------------------------------- constants
\* CGPathElementType discriminants (repr(i32)).
MoveToPoint == 0
AddLineToPoint == 1
AddQuadCurveToPoint == 2
AddCurveToPoint == 3
CloseSubpath == 4
\* A discriminant the enum does not define (what an ABI mismatch would carry).
UnknownTag == CloseSubpath + 1

ValidTags == {MoveToPoint, AddLineToPoint, AddQuadCurveToPoint, AddCurveToPoint, CloseSubpath}

\* The foreign point buffer holds at most the three points of a cubic curve.
BufCap == 3

\* A null pointer, and a pointer to a value the caller owns.
NULL == [null |-> TRUE]
Ref(t) == [null |-> FALSE, addr |-> t]
\* Option: None and Some(v).
None == [some |-> FALSE]
Some(v) == [some |-> TRUE, val |-> v]
\* What lies in the foreign buffer beyond the points the tag accounts for.
Junk == <<-1, -1>>

VARIABLES
    objs,        \* the foreign heap: object id -> record (state, retain count, stream, ...)
    hstate,      \* handle id -> "unused" | "live" | "dropped"
    hptr,        \* handle id -> the object the Handle's pointer refers to (0 before use)
    nFromRect,   \* number of from_rect calls made
    nCreate,     \* number of CGPathCreateWithRect calls made
    stack,       \* the nest of apply calls in progress, innermost last
    nCalls,      \* number of apply calls made so far
    seen,        \* object id -> what each returned apply call on it delivered
    returned,    \* the apply calls (by number) that have returned
    proc,        \* "running" | "aborted" | "crashed"
    saved,       \* element views the caller's closure has kept
    lastPoints,  \* the last result of CGPathElement::points() seen by a closure
    danglingUse, \* the caller has read through a kept view whose record was gone
    owner,       \* handle id -> the thread that holds the Handle value
    typeReg,     \* the type id the foreign runtime registered for paths (0: not yet)
    typeIds      \* the values CGPath::type_id() has returned, in call order

vars == <<objs, hstate, hptr, nFromRect, nCreate, stack, nCalls, seen, returned,
          proc, saved, lastPoints, danglingUse, owner, typeReg, typeIds>>

handleVars == <<hstate, hptr>>
callVars == <<nCalls, seen, returned>>
applyVars == <<stack, callVars, saved, lastPoints, danglingUse>>
auxVars == <<owner, typeReg, typeIds>>

\* ------------------------------------------------------------- geometry
Rects == { [x |-> 1, y |-> 2, w |-> 2, h |-> 3] }
\* CGAffineTransform {a, b, c, d, tx, ty}
Transforms == { [a |-> 1, b |-> 0, c |-> 0, d |-> 1, tx |-> 3, ty |-> 0] }
OptTransforms == {None} \cup { Some(t) : t \in Transforms }

ApplyAffine(pt, tptr) ==
    IF tptr.null THEN pt
    ELSE LET t == tptr.addr
         IN  << t.a * pt[1] + t.c * pt[2] + t.tx, t.b * pt[1] + t.d * pt[2] + t.ty >>

\* ------------------------------------------------------ command records
\* The foreign command record: a tag and a pointer to a buffer of BufCap points,
\* of which only the first ones (as many as the tag fixes) are meaningful.
Pad(pts) == pts \o [k \in 1..(BufCap - Len(pts)) |-> Junk]
CGPathElement(tag, pts) == [element_type |-> tag, points |-> Pad(pts)]

\* The command stream CGPathCreateWithRect builds.
RectStream(rect, tptr) ==
    LET P(px, py) == ApplyAffine(<<px, py>>, tptr)
    IN  << CGPathElement(MoveToPoint, << P(rect.x, rect.y) >>),
           CGPathElement(AddLineToPoint, << P(rect.x + rect.w, rect.y) >>),
           CGPathElement(AddLineToPoint, << P(rect.x + rect.w, rect.y + rect.h) >>),
           CGPathElement(AddLineToPoint, << P(rect.x, rect.y + rect.h) >>),
           CGPathElement(CloseSubpath, << >>) >>

\* Command streams of paths built elsewhere by the foreign library and handed
\* over as a raw reference: an empty path, a path of curves, and a path whose
\* record carries a tag this build does not know.
ForeignStreams ==
    { << >>,
      << CGPathElement(AddQuadCurveToPoint, << <<1, 1>>, <<2, 0>> >>),
         CGPathElement(AddCurveToPoint, << <<3, 1>>, <<4, 1>>, <<5, 0>> >>) >>,
      << CGPathElement(UnknownTag, << <<8, 8>> >>) >> }

\* ------------------------------------------------------- the foreign heap
NoObject ==
    [state |-> "none", rc |-> 0, frees |-> 0, retains |-> 0, releases |-> 0,
     stream |-> << >>, args |-> None, made |-> None]

\* A new foreign object as a creating routine returns it: one reference, the caller's.
NewObject(str, args, made) ==
    [state |-> "alive", rc |-> 1, frees |-> 0, retains |-> 0, releases |-> 0,
     stream |-> str, args |-> args, made |-> made]

\* CFRetain: one more reference.
CFRetain(ob) == [ob EXCEPT !.rc = @ + 1, !.retains = @ + 1]

\* CFRelease: one reference fewer; the object is deallocated when none is left.
\* Releasing an object that holds no reference frees it again.
CFRelease(ob) ==
    IF ob.rc > 1
    THEN [ob EXCEPT !.rc = @ - 1, !.releases = @ + 1]
    ELSE [ob EXCEPT !.rc = 0, !.releases = @ + 1, !.state = "freed", !.frees = @ + 1]

\* CGPathCreateWithRect(rect, transform): a fresh path of the rectangle's outline.
CGPathCreateWithRect(rect, tptr) ==
    NewObject(RectStream(rect, tptr), Some([rect |-> rect, transform |-> tptr]), None)

\* ------------------------------------------------------------- the Handle
\* foreign_type!: fn drop = |p| CFRelease(p)
drop_Leak(ob) == ob
drop_Twice(ob) == CFRelease(CFRelease(ob))
drop(ob) == CFRelease(ob)

\* foreign_type!: fn clone = |p| CFRetain(p)
clone_NoRetain(ob) == ob
clone(ob) == CFRetain(ob)

\* ForeignType::from_ptr: adopts the reference it is given, without retaining.
from_ptr_Retain(ob) == CFRetain(ob)
from_ptr(ob) == ob

\* from_rect: the transform argument as the pointer passed to the allocator.
TransformPtr(transform) ==
    IF transform.some THEN Ref(transform.val) ELSE NULL

\* CGPath::from_rect(rect, transform)
from_rect(rect, transform) ==
    from_ptr(CGPathCreateWithRect(rect, TransformPtr(transform)))

\* Handle values and foreign objects are numbered in the order they come to exist.
FreshHandle(h) == hstate[h] = "unused" /\ \A k \in Hid : k < h => hstate[k] # "unused"
FreshObject(o) == objs[o].state = "none" /\ \A k \in Obj : k < o => objs[k].state # "none"

LiveHandles(o) == { h \in Hid : hstate[h] = "live" /\ hptr[h] = o }
HandlesOf(o) == { h \in Hid : hstate[h] # "unused" /\ hptr[h] = o }
DroppedHandles(o) == { h \in Hid : hstate[h] = "dropped" /\ hptr[h] = o }

\* The caller's code outside any apply call.
TopLevel == proc = "running" /\ stack = << >>

\* Rust code of the caller runs: at top level, or inside a closure invocation.
RustRunning ==
    /\ proc = "running"
    /\ IF stack = << >> THEN TRUE ELSE stack[Len(stack)].phase = "cb"

\* Code that clones and drops Handles runs: the caller at top level, or a
\* closure whose body does so.
HandleCode ==
    /\ proc = "running"
    /\ IF stack = << >> THEN TRUE
       ELSE /\ stack[Len(stack)].phase = "cb"
            /\ stack[Len(stack)].closure.kind = "handles"

\* Handles borrowed (&'a self) by an apply call in progress or by a kept view.
Borrowed_None == {}
Borrowed ==
    { stack[k].h : k \in 1..Len(stack) } \cup { v.h : v \in saved }

FromRect(h, o, rect, transform) ==
    /\ TopLevel
    /\ FreshHandle(h)
    /\ FreshObject(o)
    /\ objs' = [objs EXCEPT ![o] =
                  [from_rect(rect, transform) EXCEPT
                      !.made = Some([by |-> "from_rect", rect |-> rect, transform |-> transform])]]
    /\ hstate' = [hstate EXCEPT ![h] = "live"]
    /\ hptr' = [hptr EXCEPT ![h] = o]
    /\ nFromRect' = nFromRect + 1
    /\ nCreate' = nCreate + 1
    /\ UNCHANGED <<proc, applyVars, auxVars>>

\* A path the foreign library built, adopted with ForeignType::from_ptr.
FromPtr(h, o, str) ==
    /\ TopLevel
    /\ FreshHandle(h)
    /\ FreshObject(o)
    /\ objs' = [objs EXCEPT ![o] = from_ptr(NewObject(str, None, Some([by |-> "from_ptr"])))]
    /\ hstate' = [hstate EXCEPT ![h] = "live"]
    /\ hptr' = [hptr EXCEPT ![h] = o]
    /\ UNCHANGED <<nFromRect, nCreate, auxVars, proc, applyVars>>

\* Clone for CGPath: a new Handle to the same object, with its own retain.
Clone(h, h2) ==
    /\ HandleCode
    /\ hstate[h] = "live"
    /\ hptr[h] # 0
    /\ FreshHandle(h2)
    /\ objs' = [objs EXCEPT ![hptr[h]] = clone(@)]
    /\ hstate' = [hstate EXCEPT ![h2] = "live"]
    /\ hptr' = [hptr EXCEPT ![h2] = hptr[h]]
    /\ UNCHANGED <<nFromRect, nCreate, auxVars, proc, applyVars>>

\* Drop for CGPath: runs once, when the Handle value goes out of scope; a Handle
\* that is borrowed cannot be dropped.
Drop(h) ==
    /\ HandleCode
    /\ hstate[h] = "live"
    /\ hptr[h] # 0
    /\ h \notin Borrowed
    /\ objs' = [objs EXCEPT ![hptr[h]] = drop(@)]
    /\ hstate' = [hstate EXCEPT ![h] = "dropped"]
    /\ UNCHANGED <<hptr, nFromRect, nCreate, auxVars, proc, applyVars>>

\* ------------------------------------------------------- the apply bridge
\* The closures a caller passes, by what their body does with the view and with
\* the Handles in reach: "observe" reads the element's points, "keep" stores the
\* first view it is given, "panic" may panic, "handles" clones and drops Handles
\* and calls apply.
ClosureKinds == {"observe", "keep", "panic", "handles"}

Top == stack[Len(stack)]

\* The foreign library's command record during the idx-th callback of a walk.
RecordPtr(call, idx) == Ref([call |-> call, idx |-> idx])

\* The record stays in place only while the callback that received it runs.
PtrValid(ptr) ==
    \E k \in 1..Len(stack) :
        /\ stack[k].call = ptr.addr.call
        /\ stack[k].i = ptr.addr.idx
        /\ stack[k].phase = "cb"

\* What a valid record pointer points to.
Mem(ptr) ==
    LET k == CHOOSE k \in 1..Len(stack) : stack[k].call = ptr.addr.call
    IN  objs[stack[k].path].stream[ptr.addr.idx]

\* CGPathElementRef::new(element)
CGPathElementRef_new(element) == [element |-> element]

\* ForeignType::as_ptr: the raw pointer of a borrowed Handle; no reference is taken.
as_ptr_Retain(ob) == CFRetain(ob)
as_ptr(ob) == ob

\* CGPath::apply: what it hands to CGPathApply. The context is the address of
\* apply's own local `closure` (slot: the position of apply's frame).
apply(self, slot) ==
    [path |-> hptr[self], info |-> Ref(slot), function |-> "do_apply"]

\* do_apply(info, element): reads the closure through the context pointer and
\* invokes it once, with a view of the element. The value is the list of closure
\* invocations the trampoline makes.
do_apply_Skip(stk, info, element) == << >>
do_apply_Twice(stk, info, element) ==
    << [f |-> stk[info.addr].closure, view |-> CGPathElementRef_new(element)],
       [f |-> stk[info.addr].closure, view |-> CGPathElementRef_new(element)] >>
do_apply_OuterSlot(stk, info, element) ==
    << [f |-> stk[1].closure, view |-> CGPathElementRef_new(element)] >>
do_apply(stk, info, element) ==
    << [f |-> stk[info.addr].closure, view |-> CGPathElementRef_new(element)] >>

\* CGPathElement::points(): the outcomes of the match on element_type. A tag the
\* enum does not define is an invalid enum value: the match has no arm for it, and
\* the build may take any arm or fault.
PointsArm(elem, n) == [kind |-> "slice", pts |-> SubSeq(elem.points, 1, n)]
points_AllThree(elem) == { PointsArm(elem, BufCap) }
points(elem) ==
    CASE elem.element_type = CloseSubpath -> { PointsArm(elem, 0) }
      [] elem.element_type \in {MoveToPoint, AddLineToPoint} -> { PointsArm(elem, 1) }
      [] elem.element_type = AddQuadCurveToPoint -> { PointsArm(elem, 2) }
      [] elem.element_type = AddCurveToPoint -> { PointsArm(elem, 3) }
      [] OTHER -> { [kind |-> "fault", pts |-> << >>] }
                     \cup { PointsArm(elem, n) : n \in 0..BufCap }

\* A closure of the given kind is running (innermost).
InClosure(kind) ==
    /\ proc = "running"
    /\ stack # << >>
    /\ Top.phase = "cb"
    /\ Top.closure.kind = kind

\* The view the running closure invocation was given.
CurrentView == CGPathElementRef_new(RecordPtr(Top.call, Top.i))

\* The apply call numbered c is in progress.
Active(c) == \E k \in 1..Len(stack) : stack[k].call = c

\* The apply call numbered c was left by a panic unwinding through CGPathApply.
Unwound(c) == c <= nCalls /\ ~Active(c) /\ c \notin returned

\* apply(&self, &closure): enters CGPathApply. Each call passes a closure of its own.
ApplyStart(h, kind) ==
    /\ IF stack = << >> THEN proc = "running" ELSE InClosure("handles")
    /\ hstate[h] = "live"
    /\ Len(stack) < MaxDepth
    /\ nCalls < MaxCalls
    /\ LET c == nCalls + 1
           a == apply(h, Len(stack) + 1)
           f == [id |-> c, kind |-> kind]
       IN  /\ stack' = Append(stack, [call |-> c, h |-> h, closure |-> f, path |-> a.path,
                                      info |-> a.info, i |-> 0, phase |-> "walk",
                                      log |-> << >>])
           /\ objs' = [objs EXCEPT ![a.path] = as_ptr(@)]
    /\ nCalls' = nCalls + 1
    /\ UNCHANGED <<handleVars, nFromRect, nCreate, auxVars, seen, returned, proc, saved,
                   lastPoints, danglingUse>>

\* CGPathApply reaches the next command and calls the trampoline with it.
Invoke ==
    /\ proc = "running"
    /\ stack # << >>
    /\ Top.phase = "walk"
    /\ Top.i < Len(objs[Top.path].stream)
    /\ LET d == Len(stack)
           idx == Top.i + 1
           element == RecordPtr(Top.call, idx)
           invs == do_apply(stack, Top.info, element)
           entries == [k \in 1..Len(invs) |->
                          [f |-> invs[k].f.id, view |-> invs[k].view,
                           elem |-> objs[Top.path].stream[idx]]]
       IN  stack' = [stack EXCEPT ![d].i = idx,
                                  ![d].phase = IF invs = << >> THEN "walk" ELSE "cb",
                                  ![d].log = @ \o entries]
    /\ UNCHANGED <<objs, handleVars, nFromRect, nCreate, auxVars, callVars, proc, saved,
                   lastPoints, danglingUse>>

\* The closure reads the element's points through the view (Deref, then points()).
ClosurePoints ==
    /\ InClosure("observe")
    /\ \E out \in points(Mem(CurrentView.element)) :
          /\ lastPoints' = Some([elem |-> Mem(CurrentView.element), out |-> out])
          /\ proc' = IF out.kind = "fault" THEN "crashed" ELSE proc
    /\ UNCHANGED <<objs, handleVars, nFromRect, nCreate, auxVars, stack, callVars, saved, danglingUse>>

\* The closure keeps the view it was given: CGPathElementRef<'a> lives as long as
\* the borrow of the Handle, so the closure may store it in anything that lives
\* that long.
ClosureStash ==
    /\ InClosure("keep")
    /\ Top.i = 1
    /\ Cardinality(saved) < MaxSaved
    /\ saved' = saved \cup { [view |-> CurrentView, h |-> Top.h] }
    /\ UNCHANGED <<objs, handleVars, nFromRect, nCreate, auxVars, stack, callVars, proc, lastPoints,
                   danglingUse>>

\* The closure invocation returns to the trampoline, and that to CGPathApply.
ClosureReturn ==
    /\ proc = "running"
    /\ stack # << >>
    /\ Top.phase = "cb"
    /\ stack' = [stack EXCEPT ![Len(stack)].phase = "walk"]
    /\ lastPoints' = None
    /\ UNCHANGED <<objs, handleVars, nFromRect, nCreate, auxVars, callVars, proc, saved, danglingUse>>

\* The closure panics. do_apply catches nothing, so the panic leaves an
\* extern "C" function: the process aborts, or the unwinding runs through
\* CGPathApply's frames up to apply's caller.
ClosurePanic(outcome) ==
    /\ InClosure("panic")
    /\ IF outcome = "abort"
       THEN /\ proc' = "aborted"
            /\ UNCHANGED <<stack, returned>>
       ELSE /\ stack' = SubSeq(stack, 1, Len(stack) - 1)
            /\ UNCHANGED returned
            /\ UNCHANGED proc
    /\ UNCHANGED <<objs, handleVars, nFromRect, nCreate, auxVars, nCalls, seen, saved, lastPoints,
                   danglingUse>>

\* The commands a closure was shown, by its invocations in order.
Delivered(log) == [k \in 1..Len(log) |-> log[k].elem]

\* CGPathApply has walked the whole stream and returns; apply returns.
ApplyReturn ==
    /\ proc = "running"
    /\ stack # << >>
    /\ Top.phase = "walk"
    /\ Top.i = Len(objs[Top.path].stream)
    /\ stack' = SubSeq(stack, 1, Len(stack) - 1)
    /\ seen' = [seen EXCEPT ![Top.path] = Append(@, Delivered(Top.log))]
    /\ returned' = returned \cup {Top.call}
    /\ UNCHANGED <<objs, handleVars, nFromRect, nCreate, auxVars, nCalls, proc, saved,
                   lastPoints, danglingUse>>

\* The caller dereferences a view it kept (Deref for CGPathElementRef). Once the
\* callback that delivered the view has returned the pointer dangles, and the
\* read yields whatever lies there, or faults.
UseSaved(v, outcome) ==
    /\ RustRunning
    /\ v \in saved
    /\ LET ok == PtrValid(v.view.element)
       IN  /\ danglingUse' = (danglingUse \/ ~ok)
           /\ proc' = IF ~ok /\ outcome = "fault" THEN "crashed" ELSE proc
    /\ UNCHANGED <<objs, handleVars, nFromRect, nCreate, auxVars, stack, callVars, saved, lastPoints>>

\* The caller lets go of a kept view.
ForgetSaved(v) ==
    /\ TopLevel
    /\ v \in saved
    /\ saved' = saved \ {v}
    /\ UNCHANGED <<objs, handleVars, nFromRect, nCreate, auxVars, stack, callVars, proc, lastPoints,
                   danglingUse>>

\* ----------------------------------------------------- allocator failure
\* from_rect when CGPathCreateWithRect returns no object: the null pointer goes
\* to from_ptr unchecked. from_ptr requires a non-null pointer, so what follows
\* is undefined: the build wraps the null pointer in a Handle, or traps.
FromRectNull(h, rect, transform, outcome) ==
    /\ TopLevel
    /\ FreshHandle(h)
    /\ TransformPtr(transform) \in {NULL} \cup { Ref(t) : t \in Transforms }
    /\ nFromRect' = nFromRect + 1
    /\ nCreate' = nCreate + 1
    /\ IF outcome = "wrap"
       THEN /\ hstate' = [hstate EXCEPT ![h] = "live"]
            /\ hptr' = [hptr EXCEPT ![h] = 0]
            /\ UNCHANGED proc
       ELSE /\ proc' = "crashed"
            /\ UNCHANGED handleVars
    /\ UNCHANGED <<objs, applyVars, auxVars>>

\* A Handle that holds a null pointer is cloned or dropped: CFRetain and
\* CFRelease do not accept a null reference, and the process stops.
NullHandleOp(h) ==
    /\ HandleCode
    /\ hstate[h] = "live"
    /\ hptr[h] = 0
    /\ proc' = "crashed"
    /\ UNCHANGED <<objs, handleVars, nFromRect, nCreate, auxVars, applyVars>>

\* ------------------------------------------------ Handles held by threads
\* The Handles thread t is in the middle of cloning; a thread runs one operation
\* at a time.
Cloning(t) == { h \in Hid : hstate[h] = "cloning" /\ owner[h] = t }
ThreadReady(t) == proc = "running" /\ stack = << >> /\ Cloning(t) = {}

\* The Handles that hold a reference to object o: the live ones, and the one a
\* clone in progress has retained for.
HeldHandles(o) == { h \in Hid : hstate[h] \in {"live", "cloning"} /\ hptr[h] = o }

\* A Handle value is handed to another thread.
Move(h, t) ==
    /\ ThreadReady(owner[h])
    /\ hstate[h] = "live"
    /\ hptr[h] # 0
    /\ owner[h] # t
    /\ owner' = [owner EXCEPT ![h] = t]
    /\ UNCHANGED <<objs, handleVars, nFromRect, nCreate, proc, applyVars, typeReg, typeIds>>

\* Clone on thread t, first half: CFRetain(p), one atomic step of the foreign
\* library on the shared count.
CloneRetain(t, h, h2) ==
    /\ ThreadReady(t)
    /\ hstate[h] = "live"
    /\ owner[h] = t
    /\ hptr[h] # 0
    /\ FreshHandle(h2)
    /\ objs' = [objs EXCEPT ![hptr[h]] = clone(@)]
    /\ hstate' = [hstate EXCEPT ![h2] = "cloning"]
    /\ hptr' = [hptr EXCEPT ![h2] = hptr[h]]
    /\ owner' = [owner EXCEPT ![h2] = t]
    /\ UNCHANGED <<nFromRect, nCreate, proc, applyVars, typeReg, typeIds>>

\* Clone on thread t, second half: the retained pointer is wrapped and returned.
CloneWrap(t, h2) ==
    /\ proc = "running"
    /\ h2 \in Cloning(t)
    /\ objs' = [objs EXCEPT ![hptr[h2]] = from_ptr(@)]
    /\ hstate' = [hstate EXCEPT ![h2] = "live"]
    /\ UNCHANGED <<hptr, nFromRect, nCreate, proc, applyVars, auxVars>>

\* Drop on thread t: CFRelease(p), one atomic step of the foreign library.
DropT(t, h) ==
    /\ ThreadReady(t)
    /\ hstate[h] = "live"
    /\ owner[h] = t
    /\ hptr[h] # 0
    /\ objs' = [objs EXCEPT ![hptr[h]] = drop(@)]
    /\ hstate' = [hstate EXCEPT ![h] = "dropped"]
    /\ UNCHANGED <<hptr, nFromRect, nCreate, proc, applyVars, auxVars>>

\* ------------------------------------------------------------ type identity
\* The ids the foreign runtime may register the path type under in a process.
TypeIDs == {7, 9}

\* CGPathGetTypeID(): the id the runtime registered for paths.
CGPathGetTypeID(reg) == reg

\* CGPath::type_id()
type_id_PerCall(reg) == CGPathGetTypeID(reg) + Len(typeIds)
type_id(reg) == CGPathGetTypeID(reg)

\* A call of CGPath::type_id(); the runtime registers the type on first use
\* (id: the id this process gets).
TypeId(id) ==
    /\ TopLevel
    /\ Len(typeIds) < MaxQueries
    /\ LET reg == IF typeReg = 0 THEN id ELSE typeReg
       IN  /\ typeReg' = reg
           /\ typeIds' = Append(typeIds, type_id(reg))
    /\ UNCHANGED <<objs, handleVars, nFromRect, nCreate, proc, applyVars, owner>>

Init ==
    /\ objs = [o \in Obj |-> NoObject]
    /\ hstate = [h \in Hid |-> "unused"]
    /\ hptr = [h \in Hid |-> 0]
    /\ nFromRect = 0
    /\ nCreate = 0
    /\ stack = << >>
    /\ nCalls = 0
    /\ seen = [o \in Obj |-> << >>]
    /\ returned = {}
    /\ proc = "running"
    /\ saved = {}
    /\ lastPoints = None
    /\ danglingUse = FALSE
    /\ owner = [h \in Hid |-> 0]
    /\ typeReg = 0
    /\ typeIds = << >>

Next ==
    \/ \E h \in Hid, o \in Obj, rect \in Rects, transform \in OptTransforms :
          FromRect(h, o, rect, transform)
    \/ \E h \in Hid, o \in Obj, str \in ForeignStreams : FromPtr(h, o, str)
    \/ \E h \in Hid, h2 \in Hid : Clone(h, h2)
    \/ \E h \in Hid : Drop(h)
    \/ \E h \in Hid, kind \in ClosureKinds : ApplyStart(h, kind)
    \/ Invoke
    \/ ClosurePoints
    \/ ClosureStash
    \/ ClosureReturn
    \/ \E outcome \in {"abort", "unwind"} : ClosurePanic(outcome)
    \/ ApplyReturn
    \/ \E v \in saved, outcome \in {"garbage", "fault"} : UseSaved(v, outcome)
    \/ \E v \in saved : ForgetSaved(v)

Spec == Init /\ [][Next]_vars

\* The foreign walk runs to its end on the calling thread, and a closure body
\* that does not fail comes back to it.
FairSpec ==
    Spec /\ WF_vars(Invoke) /\ WF_vars(ClosureReturn) /\ WF_vars(ApplyReturn)

\* The Handle operations alone, with an allocator that may return no object.
NextAlloc ==
    \/ \E h \in Hid, o \in Obj, rect \in Rects, transform \in OptTransforms :
          FromRect(h, o, rect, transform)
    \/ \E h \in Hid, o \in Obj, str \in ForeignStreams : FromPtr(h, o, str)
    \/ \E h \in Hid, h2 \in Hid : Clone(h, h2)
    \/ \E h \in Hid : Drop(h)
    \/ \E h \in Hid, rect \in Rects, transform \in OptTransforms,
           outcome \in {"wrap", "trap"} : FromRectNull(h, rect, transform, outcome)
    \/ \E h \in Hid : NullHandleOp(h)

AllocSpec == Init /\ [][NextAlloc]_vars

\* Threads that clone, drop and pass on Handles of paths the main thread built.
NextMT ==
    \/ \E h \in Hid, o \in Obj, rect \in Rects, transform \in OptTransforms :
          FromRect(h, o, rect, transform)
    \/ \E h \in Hid, t \in Threads : Move(h, t)
    \/ \E t \in Threads, h \in Hid, h2 \in Hid : CloneRetain(t, h, h2)
    \/ \E t \in Threads, h2 \in Hid : CloneWrap(t, h2)
    \/ \E t \in Threads, h \in Hid : DropT(t, h)

MTSpec == Init /\ [][NextMT]_vars

\* The Handle operations and the type identity query.
NextQuery ==
    \/ \E h \in Hid, o \in Obj, rect \in Rects, transform \in OptTransforms :
          FromRect(h, o, rect, transform)
    \/ \E h \in Hid, h2 \in Hid : Clone(h, h2)
    \/ \E h \in Hid : Drop(h)
    \/ \E id \in TypeIDs : TypeId(id)

QuerySpec == Init /\ [][NextQuery]_vars

\* ================================================================ claims
Made(o) == objs[o].state # "none"
FromRectMade(o) == Made(o) /\ objs[o].made.some /\ objs[o].made.val.by = "from_rect"

\* C1: once every Handle of an object (the original and its N clones) has been
\* dropped the object has been freed exactly once; it is not freed while a
\* Handle is still to be dropped; and the state it ends in depends on N alone,
\* not on the order of the drops.
C1_ReleasedOnceAfterLastDrop ==
    \A o \in Obj :
        Made(o) =>
            /\ objs[o].frees <= 1
            /\ LiveHandles(o) # {} => objs[o].frees = 0 /\ objs[o].state = "alive"
            /\ LiveHandles(o) = {} =>
                  /\ objs[o].frees = 1
                  /\ objs[o].state = "freed"
                  /\ objs[o].rc = 0
                  /\ objs[o].retains = Cardinality(HandlesOf(o)) - 1
                  /\ objs[o].releases = Cardinality(HandlesOf(o))

\* A from_rect path cloned twice, all three Handles dropped.
C1_Witness ==
    \E o \in Obj :
        /\ FromRectMade(o)
        /\ Cardinality(DroppedHandles(o)) = 3
        /\ LiveHandles(o) = {}
        /\ objs[o].frees = 1

\* C2: the foreign reference count of a path object equals the number of live
\* Handles referring to it; clones and retains, drops and releases, pair off one
\* to one, so releases never exceed 1 + retains.
C2_CountEqualsLiveHandles ==
    \A o \in Obj :
        Made(o) =>
            /\ objs[o].rc = Cardinality(LiveHandles(o))
            /\ objs[o].retains = Cardinality(HandlesOf(o)) - 1
            /\ objs[o].releases = Cardinality(DroppedHandles(o))
            /\ objs[o].releases <= 1 + objs[o].retains
            /\ objs[o].frees <= 1

\* Two live Handles and a dropped one on the same object.
C2_Witness ==
    \E o \in Obj :
        /\ Cardinality(LiveHandles(o)) = 2
        /\ DroppedHandles(o) # {}
        /\ objs[o].rc = 2

\* C10: from_rect calls the allocator once, with a null transform pointer exactly
\* when transform is None and the address of the transform otherwise, and adopts
\* the reference without retaining: a path that has only the Handle from_rect
\* returned has reference count 1.
C10_FromRectAdoptsOneReference ==
    /\ nCreate = nFromRect
    /\ \A o \in Obj :
          FromRectMade(o) =>
              LET m == objs[o].made.val
                  a == objs[o].args
              IN  /\ a.some
                  /\ a.val.rect = m.rect
                  /\ a.val.transform.null <=> ~m.transform.some
                  /\ m.transform.some => a.val.transform = Ref(m.transform.val)
                  /\ objs[o].retains = Cardinality(HandlesOf(o)) - 1
                  /\ (Cardinality(HandlesOf(o)) = 1 /\ LiveHandles(o) = HandlesOf(o)) =>
                        /\ objs[o].rc = 1
                        /\ objs[o].retains = 0
                        /\ objs[o].releases = 0

\* A path just built by from_rect with a transform: one Handle, one reference.
C10_Witness ==
    \E o \in Obj :
        /\ FromRectMade(o)
        /\ objs[o].made.val.transform.some
        /\ ~objs[o].args.val.transform.null
        /\ Cardinality(HandlesOf(o)) = 1
        /\ objs[o].rc = 1

\* C3: one apply call invokes the closure once per command of the path's stream,
\* in stream order: at every moment of the walk the invocations made so far are
\* those for c1..ci, the k-th with a view of ck and made on the closure of this
\* call, and a call that returns has delivered exactly c1..cn (nothing at all
\* when n = 0).
C3_OneInvocationPerCommandInOrder ==
    /\ \A d \in 1..Len(stack) :
          LET fr == stack[d]
              str == objs[fr.path].stream
          IN  /\ Len(fr.log) = fr.i
              /\ fr.i <= Len(str)
              /\ \A k \in 1..Len(fr.log) :
                    /\ fr.log[k].elem = str[k]
                    /\ fr.log[k].view = CGPathElementRef_new(RecordPtr(fr.call, k))
                    /\ fr.log[k].f = fr.call
    /\ \A o \in Obj : \A j \in 1..Len(seen[o]) : seen[o][j] = objs[o].stream

\* An apply over a rectangle path has returned, having delivered its five
\* commands, and an apply over an empty path has returned too.
C3_Witness ==
    /\ \E o \in Obj : Len(seen[o]) >= 1 /\ Len(objs[o].stream) = 5 /\ Len(seen[o][1]) = 5
    /\ \E o \in Obj : Len(seen[o]) >= 1 /\ Made(o) /\ objs[o].stream = << >>

\* The number of points the element tag stands for.
TagPointCount(tag) ==
    CASE tag = CloseSubpath -> 0
      [] tag = MoveToPoint -> 1
      [] tag = AddLineToPoint -> 1
      [] tag = AddQuadCurveToPoint -> 2
      [] tag = AddCurveToPoint -> 3

\* C4: for an element with one of the five tags, points() is a list of exactly
\* the tag's count of points (0 Close, 1 Move, 1 Line, 2 Quad, 3 Curve), the first
\* ones of the foreign buffer, and nothing beyond them is read.
C4_PointCountByTag ==
    (lastPoints.some /\ lastPoints.val.elem.element_type \in ValidTags) =>
        LET e == lastPoints.val.elem
            out == lastPoints.val.out
        IN  /\ out.kind = "slice"
            /\ Len(out.pts) = TagPointCount(e.element_type)
            /\ \A k \in 1..Len(out.pts) : out.pts[k] = e.points[k] /\ out.pts[k] # Junk

\* A closure has read the two points of a quadratic curve.
C4_Witness ==
    /\ lastPoints.some
    /\ lastPoints.val.elem.element_type = AddQuadCurveToPoint
    /\ Len(lastPoints.val.out.pts) = 2

\* C9: apply only reads the path: no step of an apply call (its start, a
\* delivery, a closure's return, its return) changes the foreign heap (streams,
\* reference counts), and all apply calls that returned on one object delivered
\* the same sequence of tags and points.
C9_ApplyIsPureRead ==
    /\ [](\A o \in Obj : \A j, k \in 1..Len(seen[o]) : seen[o][j] = seen[o][k])
    /\ [][stack' # stack => objs' = objs]_vars

\* Two apply calls have returned on the same rectangle path.
C9_Witness ==
    \E o \in Obj : Len(seen[o]) = 2 /\ Len(seen[o][2]) = 5

\* C5: a closure's panic is caught at the trampoline: it never aborts the
\* process inside the foreign call and never unwinds through CGPathApply, so the
\* foreign call returns normally before the failure reaches the caller.
C5_PanicCaughtAtTrampoline ==
    /\ proc # "aborted"
    /\ \A c \in 1..MaxCalls : ~Unwound(c)

\* C6: for a record whose tag is none of the five defined codes the program
\* stops; it never produces a point list for that element.
C6_UnknownTagIsFatal ==
    (lastPoints.some /\ lastPoints.val.elem.element_type \notin ValidTags) =>
        lastPoints.val.out.kind # "slice"

\* C7: the caller never reads through an element view once the callback
\* invocation that delivered it has returned.
C7_NoViewUseAfterCallback == ~danglingUse

\* C8: apply is synchronous and bounded: a closure invocation is only ever made
\* for a call that has started and not returned, every call that starts
\* returns, and a call that has returned is never walked again.
C8_ApplySynchronousAndBounded ==
    /\ \A c \in 1..MaxCalls : Active(c) ~> (c \in returned)
    /\ [][ /\ \A d \in 1..Len(stack') :
                 stack'[d].log # << >> =>
                     d <= Len(stack) /\ stack[d].call = stack'[d].call
           /\ \A c \in returned : c \in returned' /\ ~Active(c)' ]_vars

\* The tags and point counts of a rectangle's outline.
RectTags == << MoveToPoint, AddLineToPoint, AddLineToPoint, AddLineToPoint, CloseSubpath >>
RectCounts == << 1, 1, 1, 1, 0 >>

\* C11: every apply that returned on a path built by from_rect(R, T) delivered
\* exactly five commands, a move, three segments and a close, whose points()
\* have 1, 1, 1, 1 and 0 points, and two paths built from the same (R, T)
\* deliver the same sequence.
C11_RectPathFiveCommands ==
    /\ \A o \in Obj : \A j \in 1..Len(seen[o]) :
          FromRectMade(o) =>
              LET s == seen[o][j]
              IN  /\ Len(s) = 5
                  /\ \A k \in 1..Len(s) :
                        /\ k <= 5 => s[k].element_type = RectTags[k]
                        /\ k <= 5 => \A out \in points(s[k]) :
                                        out.kind = "slice" /\ Len(out.pts) = RectCounts[k]
    /\ \A o1, o2 \in Obj :
          (FromRectMade(o1) /\ FromRectMade(o2) /\ objs[o1].made = objs[o2].made) =>
              \A j \in 1..Len(seen[o1]) : \A k \in 1..Len(seen[o2]) :
                  seen[o1][j] = seen[o2][k]

\* Two paths built from the same rectangle and transform, each applied once.
C11_Witness ==
    \E o1, o2 \in Obj :
        /\ o1 # o2
        /\ FromRectMade(o1) /\ FromRectMade(o2)
        /\ objs[o1].made = objs[o2].made
        /\ objs[o1].made.val.transform.some
        /\ Len(seen[o1]) = 1 /\ Len(seen[o2]) = 1

\* C12: the pointer of every live Handle is non-null, whatever from_rect's
\* allocator returned, and so is the pointer of every clone.
C12_LiveHandlePointerNonNull ==
    \A h \in Hid : hstate[h] = "live" => hptr[h] # 0

\* C13: with threads cloning and dropping distinct Handles of one object, each
\* retain and release an atomic step, the reference count equals the number of
\* Handles held (the live ones and the one a clone in progress has retained
\* for) in every interleaving; the object is freed once, exactly when no Handle
\* is left; and the count changes only by +1 in a clone and by -1 in a drop.
C13_ConcurrentCountEqualsHandles ==
    /\ [](\A o \in Obj :
            Made(o) =>
                /\ objs[o].rc = Cardinality(HeldHandles(o))
                /\ objs[o].frees <= 1
                /\ (objs[o].frees = 1) <=> (HeldHandles(o) = {})
                /\ (objs[o].state = "freed") <=> (HeldHandles(o) = {}))
    /\ [][\A o \in Obj :
            (Made(o) /\ objs'[o].rc # objs[o].rc) =>
                \/ /\ objs'[o].rc = objs[o].rc + 1
                   /\ \E h2 \in Hid : /\ hstate[h2] = "unused"
                                      /\ hstate'[h2] = "cloning"
                                      /\ hptr'[h2] = o
                \/ /\ objs'[o].rc = objs[o].rc - 1
                   /\ \E h \in Hid : /\ hstate[h] = "live"
                                     /\ hstate'[h] = "dropped"
                                     /\ hptr[h] = o]_vars

\* One thread is in the middle of a clone of a path of which another thread has
\* dropped its Handle; a third Handle is live.
C13_Witness ==
    \E o \in Obj : \E h, h2 \in Hid :
        /\ hptr[h] = o /\ hptr[h2] = o
        /\ hstate[h] = "cloning"
        /\ hstate[h2] = "dropped"
        /\ owner[h] # owner[h2]
        /\ objs[o].rc = 2
        /\ objs[o].state = "alive"

\* C14: any two calls of type_id in a process return the same value, and a call
\* changes no object (no reference count), no Handle and no Handle's holder.
C14_TypeIdPureAndDeterministic ==
    /\ [](\A j, k \in 1..Len(typeIds) : typeIds[j] = typeIds[k])
    /\ [][typeIds' # typeIds => UNCHANGED <<objs, hstate, hptr, owner>>]_vars

\* type_id has been called twice, with a path alive that has two Handles.
C14_Witness ==
    /\ Len(typeIds) = 2
    /\ \E o \in Obj : objs[o].rc = 2 /\ Cardinality(LiveHandles(o)) = 2

\* C15: every trampoline invocation calls the closure of the apply call that
\* registered it, through the context pointer that call handed over, which
\* stays the same and points to that call's own live closure slot for the
\* whole foreign call; with a call nested inside a closure, each call's
\* invocations are made on its own closure only, and a call that returns has
\* delivered its whole stream in order and left the calls around it as they were.
C15_TrampolineCallsOwnClosure ==
    /\ [](\A d \in 1..Len(stack) :
            LET fr == stack[d]
            IN  /\ ~fr.info.null
                /\ fr.info.addr \in 1..Len(stack)
                /\ stack[fr.info.addr].call = fr.call
                /\ stack[fr.info.addr].closure = fr.closure
                /\ \A k \in 1..Len(fr.log) :
                      /\ fr.log[k].f = fr.closure.id
                      /\ \A e \in 1..Len(stack) : e # d => fr.log[k].f # stack[e].closure.id
                /\ Delivered(fr.log) = SubSeq(objs[fr.path].stream, 1, fr.i))
    /\ [][ /\ \A d \in 1..Len(stack') :
                 (d <= Len(stack) /\ stack[d].call = stack'[d].call) =>
                     /\ stack'[d].info = stack[d].info
                     /\ stack'[d].closure = stack[d].closure
                     /\ d < Len(stack) => stack'[d] = stack[d]
           /\ returned' # returned =>
                 /\ Delivered(Top.log) = objs[Top.path].stream
                 /\ \A k \in 1..Len(Top.log) : Top.log[k].f = Top.closure.id
                 /\ stack' = SubSeq(stack, 1, Len(stack) - 1) ]_vars

\* An apply over a rectangle path started inside a closure of another has
\* returned with its five commands, and the outer call, two commands into its
\* own five, goes on.
C15_Witness ==
    /\ Len(stack) = 1
    /\ stack[1].call = 1
    /\ 2 \in returned
    /\ stack[1].i = 2
    /\ Len(stack[1].log) = 2
    /\ Len(objs[stack[1].path].stream) = 5
    /\ \E o \in Obj : Len(seen[o]) = 1 /\ Len(seen[o][1]) = 5

\* C16: from the start of an apply call to its return the object it walks is
\* alive with a reference count of at least 1, held by the borrowed Handle,
\* whatever clones and drops of other Handles the closure makes meanwhile.
C16_ObjectAliveDuringApply ==
    /\ [](\A d \in 1..Len(stack) :
            LET fr == stack[d]
            IN  /\ objs[fr.path].state = "alive"
                /\ objs[fr.path].rc >= 1
                /\ objs[fr.path].frees = 0
                /\ hstate[fr.h] = "live"
                /\ hptr[fr.h] = fr.path)
    /\ [][\A d \in 1..Len(stack) :
            objs'[stack[d].path].rc # objs[stack[d].path].rc =>
                /\ objs'[stack[d].path].rc >= 1
                /\ objs'[stack[d].path].state = "alive"
                /\ hstate'[stack[d].h] = "live"]_vars

\* Inside a closure of an apply call, every other Handle of the walked path (two
\* of them) has been dropped, and the walk has commands left.
C16_Witness ==
    /\ InClosure("handles")
    /\ Top.i < Len(objs[Top.path].stream)
    /\ LiveHandles(Top.path) = {Top.h}
    /\ Cardinality(DroppedHandles(Top.path)) = 2
    /\ objs[Top.path].rc = 1

====
